---- MODULE Spec2Model ----
(***************************************************************************)
(* The voice pipeline of the ORA Discord bot, src/src/utils/voice_manager.py *)
(* (HotwordListener and VoiceManager), with the text-to-speech and         *)
(* speech-to-text clients it awaits.  Every action is one run of a         *)
(* coroutine between two suspension points of the asyncio event loop (or   *)
(* one synchronous callback); the collaborators (Discord voice client,     *)
(* VOICEVOX, Whisper, the file system) answer nondeterministically.        *)
(***************************************************************************)
EXTENDS Integers, Sequences, FiniteSets, TLC

\* ------------------------------------------------------------------ bounds
\* play_tts calls made in one behaviour
MaxPlayCalls == 3
\* watchdog tasks created in one behaviour
MaxWatchdogs == 2
\* feed calls made in one behaviour
MaxFeeds == 3
\* the clock stops at this many seconds
MaxTime == 345

\* ------------------------------------------------------- program constants
\* len(buffer) >= 384000 (HotwordListener.feed)
ChunkThreshold == 384000
\* rms > 200 (HotwordListener._is_speech)
RmsThreshold == 200
\* audioop.rms(pcm, 2): bytes per sample
SampleWidth == 2
\* self._idle_timeout = 300.0
IdleTimeout == 300
\* await asyncio.sleep(30) in _watch_idle
PollInterval == 30
\* one second of 48 kHz 16-bit stereo PCM, in bytes
SecondBytes == 192000

\* ------------------------------------------------------------ the platform
None == "None"
Guilds == {"g1", "g2"}
Channels == {"c1", "c2", "c3"}
\* discord.Member objects: m4 is in no voice channel
Members == {"m1", "m2", "m3", "m4"}

MemberGuild(m) == IF m = "m3" THEN "g2" ELSE "g1"

MemberChannel(m) ==
    CASE m = "m1" -> "c1"
      [] m = "m2" -> "c2"
      [] m = "m3" -> "c3"
      [] OTHER -> None

\* ------------------------------------------------------------------ strings
\* A str is a sequence of characters.  "WS" is a whitespace character, "I."
\* is U+0130, the one character str.lower() turns into two ("i" and U+0307,
\* written "."); the lower-case letters and "x" stand for themselves.
Space == "WS"

IsSpace(c) == c = Space

RECURSIVE LStrip(_)
LStrip(s) == IF s # <<>> /\ IsSpace(Head(s)) THEN LStrip(Tail(s)) ELSE s

RECURSIVE RStrip(_)
RStrip(s) ==
    IF s # <<>> /\ IsSpace(s[Len(s)]) THEN RStrip(SubSeq(s, 1, Len(s) - 1)) ELSE s

\* str.strip()
Strip(s) == RStrip(LStrip(s))

\* str.lower() of one character
CharLower(c) ==
    CASE c = "O" -> <<"o">>
      [] c = "R" -> <<"r">>
      [] c = "A" -> <<"a">>
      [] c = "L" -> <<"l">>
      [] c = "M" -> <<"m">>
      [] c = "I." -> <<"i", ".">>
      [] OTHER -> <<c>>

\* str.lower()
RECURSIVE Lower(_)
Lower(s) == IF s = <<>> THEN <<>> ELSE CharLower(Head(s)) \o Lower(Tail(s))

\* s[i:] with Python's index i, counted from 0
From(s, i) == SubSeq(s, i + 1, Len(s))

\* the places (counted from 0) at which key occurs in s
Occurrences(s, key) ==
    {i \in 0 .. Len(s) - Len(key) : SubSeq(s, i + 1, i + Len(key)) = key}

\* key in s
Contains(s, key) == Occurrences(s, key) # {}

\* s.index(key)
Index(s, key) == CHOOSE i \in Occurrences(s, key) : \A j \in Occurrences(s, key) : i <= j

\* key = "orallm"
Key == <<"o", "r", "a", "l", "l", "m">>

\* ---------------------------------------------------------------- variables
VARIABLES
    now,           \* time.monotonic(), in seconds
    vc,            \* guild.voice_client of every guild
    lastActivity,  \* VoiceManager._last_activity
    idleTasks,     \* VoiceManager._idle_tasks: the registered watchdog task
    wd,            \* the _watch_idle tasks
    marked,        \* history: when _mark_active was last called, per guild
    tts,           \* the play_tts calls
    playHolder,    \* VoiceManager._play_locks: the task inside the lock
    playWaiters,   \* VoiceManager._play_locks: the tasks waiting, oldest first
    playing,       \* the clip the guild's voice client is playing
    tmpFiles,      \* the temporary .wav files that exist
    lockLog,       \* history: the order in which _play_audio calls took place
    playLog,       \* history: the order in which clips started playing
    playOverlap,   \* history: a voice_client.play call met another call's clip
    lastEnsure,    \* history: the ensure_voice_client return of the latest play_tts step
    fileLog,       \* history: what became of every call's temporary file
    buffers,       \* HotwordListener._buffers
    processing,    \* HotwordListener._processing: the task holding the lock
    callback,      \* HotwordListener._callback
    proc,          \* the _process tasks
    feeds,         \* the number of feed calls made
    fed,           \* history: the frames every speaker's buffer was given
    gated,         \* history: the chunks handed to _is_speech, per speaker
    lastFeed,      \* history: what the latest feed call did
    lastHeard      \* history: what the latest transcription returned

playVars == <<vc, tts, playHolder, playWaiters, playing, tmpFiles, lockLog,
              playLog, playOverlap, lastEnsure, fileLog>>
idleVars == <<now, lastActivity, idleTasks, wd, marked>>
hotVars == <<buffers, processing, callback, proc, feeds, fed, gated, lastFeed,
             lastHeard>>
vars == <<playVars, idleVars, hotVars>>

ProcIds == 1 .. MaxFeeds
TtsIds == 1 .. MaxPlayCalls
WdIds == 1 .. MaxWatchdogs

\* str values handed to play_tts
Texts == {<<>>, <<Space>>, <<"h", "i">>}

\* a play_tts call that has not been made, and one that has returned
IdleCall ==
    [pc |-> "idle", member |-> None, guild |-> None, text |-> <<>>, ref |-> 0,
     result |-> "none"]

\* a call in progress: its arguments and the voice client object it holds
Call(pc, m, text, ref) ==
    [pc |-> pc, member |-> m, guild |-> MemberGuild(m), text |-> text, ref |-> ref,
     result |-> "none"]

\* a call that has returned res (or raised): only its guild is remembered
Finished(g, res) ==
    [pc |-> "done", member |-> None, guild |-> g, text |-> <<>>, ref |-> 0,
     result |-> res]

Returned(t, res) == Finished(tts[t].guild, res)

TtsGuild(t) == tts[t].guild

NoClient == [state |-> "none", channel |-> None, listening |-> FALSE, gen |-> 0]

\* ------------------------------------------------------------ _mark_active
\* a task handle that always looks done
WdAliveNever(g) == FALSE

\* task is None or task.done() is false
WdAlive(g) == idleTasks[g] # 0 /\ wd[idleTasks[g]].pc # "done"

FreeWd == {i \in WdIds : wd[i].pc = "none"}

NewWd == CHOOSE i \in FreeWd : \A j \in FreeWd : i <= j

\* the bound on the watchdog tasks of one behaviour
CanMark(g) == WdAlive(g) \/ FreeWd # {}

\* a timestamp that is written the first time only and never refreshed
MarkedOnce(g) ==
    IF lastActivity[g] = -1 THEN [lastActivity EXCEPT ![g] = now] ELSE lastActivity

\* self._last_activity[guild_id] = time.monotonic()
MarkedActivity(g) == [lastActivity EXCEPT ![g] = now]

\* asyncio.create_task(self._watch_idle(guild_id)), which sleeps at once
StartedWd(g) == [pc |-> "sleep", guild |-> g, wakeAt |-> now + PollInterval]

MarkedIdleTasks(g) == IF WdAlive(g) THEN idleTasks ELSE [idleTasks EXCEPT ![g] = NewWd]

MarkedWd(g) == IF WdAlive(g) THEN wd ELSE [wd EXCEPT ![NewWd] = StartedWd(g)]

MarkActive(g) ==
    /\ CanMark(g)
    /\ marked' = [marked EXCEPT ![g] = now]
    /\ lastActivity' = MarkedActivity(g)
    /\ idleTasks' = MarkedIdleTasks(g)
    /\ wd' = MarkedWd(g)

\* ------------------------------------------------- play_tts: the connection
\* ensure_voice_client(m), made by call t, has returned: the platform
\* operations it awaited or called (ops) and the voice client object it
\* returned (ref; 0 for None)
EnsureReturned(t, m, ops, ref) == [call |-> t, member |-> m, ops |-> ops, ref |-> ref]

\* a step of a play_tts call in which ensure_voice_client does not return
NoEnsure == EnsureReturned(0, None, <<>>, 0)

\* a failure path that marks the guild active all the same
UnavailableMarked(t, m) ==
    /\ tts' = [tts EXCEPT ![t] = Finished(MemberGuild(m), "False")]
    /\ MarkActive(MemberGuild(m))

\* ensure_voice_client returned None (or raised inside its try): play_tts
\* returns False
Unavailable(t, m) ==
    /\ tts' = [tts EXCEPT ![t] = Finished(MemberGuild(m), "False")]
    /\ UNCHANGED <<lastActivity, idleTasks, wd, marked>>

\* a synthesize that takes any text
BlankNever(text) == FALSE

\* VoiceVoxClient.synthesize: not text.strip()
Blank(text) == Strip(text) = <<>>

\* ensure_voice_client returned the client: it marked the guild active, and
\* play_tts awaits tts.synthesize, which raises at once on a blank text
Ensured(t, m, text, ref) ==
    /\ MarkActive(MemberGuild(m))
    /\ tts' = [tts EXCEPT ![t] =
                 IF Blank(text)
                 THEN Finished(MemberGuild(m), "False")
                 ELSE Call("synth", m, text, ref)]

\* a client that is moved whatever channel it is in
NeedsMoveAlways(g, ch) == vc[g].state # "none"

\* voice_client and voice_client.channel != channel
NeedsMove(g, ch) == vc[g].state # "none" /\ vc[g].channel # ch

\* play_tts(member, text) up to its first suspension
PlayTts(t, m, text) ==
    /\ tts[t].pc = "idle"
    /\ UNCHANGED hotVars
    /\ \A u \in TtsIds : u < t => tts[u].pc # "idle"
    /\ UNCHANGED <<now, playHolder, playWaiters, playing, tmpFiles, lockLog,
                   playLog, playOverlap, fileLog>>
    /\ LET g == MemberGuild(m)
           ch == MemberChannel(m)
       IN  IF ch = None
           THEN /\ Unavailable(t, m)
                /\ lastEnsure' = EnsureReturned(t, m, <<>>, 0)
                /\ UNCHANGED vc
           ELSE IF NeedsMove(g, ch)
           THEN \* await voice_client.move_to(channel)
                /\ tts' = [tts EXCEPT ![t] = Call("moving", m, text, vc[g].gen)]
                /\ lastEnsure' = NoEnsure
                /\ UNCHANGED <<vc, lastActivity, idleTasks, wd, marked>>
           ELSE IF vc[g].state = "none"
           THEN \* await channel.connect(...): the client is registered at once
                /\ vc' = [vc EXCEPT ![g] = [state |-> "connecting", channel |-> ch,
                            listening |-> FALSE, gen |-> vc[g].gen + 1]]
                /\ tts' = [tts EXCEPT ![t] = Call("connecting", m, text, vc[g].gen + 1)]
                /\ lastEnsure' = NoEnsure
                /\ UNCHANGED <<lastActivity, idleTasks, wd, marked>>
           ELSE IF ~vc[g].listening
           THEN \* voice_client.listen(sink): raises on a client not connected
                \/ /\ vc[g].state = "connected"
                   /\ vc' = [vc EXCEPT ![g].listening = TRUE]
                   /\ Ensured(t, m, text, vc[g].gen)
                   /\ lastEnsure' = EnsureReturned(t, m, <<"listen">>, vc[g].gen)
                \/ /\ Unavailable(t, m)
                   /\ lastEnsure' = EnsureReturned(t, m, <<"listen">>, 0)
                   /\ UNCHANGED vc
           ELSE /\ Ensured(t, m, text, vc[g].gen)
                /\ lastEnsure' = EnsureReturned(t, m, <<>>, vc[g].gen)
                /\ UNCHANGED vc

\* channel.connect returns or raises; on success the sink is attached
ConnectDone(t) ==
    /\ tts[t].pc = "connecting"
    /\ UNCHANGED hotVars
    /\ UNCHANGED <<now, playHolder, playWaiters, playing, tmpFiles, lockLog,
                   playLog, playOverlap, fileLog>>
    /\ LET m == tts[t].member
           g == TtsGuild(t)
           mine == vc[g].state = "connecting" /\ vc[g].gen = tts[t].ref
       IN  \/ /\ mine
              /\ vc' = [vc EXCEPT ![g].state = "connected", ![g].listening = TRUE]
              /\ Ensured(t, m, tts[t].text, tts[t].ref)
              /\ lastEnsure' = EnsureReturned(t, m, <<"connect", "listen">>, tts[t].ref)
           \/ \* connected, and voice_client.listen(sink) raises
              /\ mine
              /\ vc' = [vc EXCEPT ![g].state = "connected"]
              /\ Unavailable(t, m)
              /\ lastEnsure' = EnsureReturned(t, m, <<"connect", "listen">>, 0)
           \/ \* connect raises: the client is gone
              /\ vc' = IF mine THEN [vc EXCEPT ![g] = [NoClient EXCEPT !.gen = vc[g].gen]]
                       ELSE vc
              /\ Unavailable(t, m)
              /\ lastEnsure' = EnsureReturned(t, m, <<"connect">>, 0)

\* voice_client.move_to returns or raises
MoveDone(t) ==
    /\ tts[t].pc = "moving"
    /\ UNCHANGED hotVars
    /\ UNCHANGED <<now, playHolder, playWaiters, playing, tmpFiles, lockLog,
                   playLog, playOverlap, fileLog>>
    /\ LET m == tts[t].member
           g == TtsGuild(t)
       IN  \/ /\ vc[g].state # "none" /\ vc[g].gen = tts[t].ref
              /\ vc' = [vc EXCEPT ![g].channel = MemberChannel(m)]
              /\ Ensured(t, m, tts[t].text, tts[t].ref)
              /\ lastEnsure' = EnsureReturned(t, m, <<"move_to">>, tts[t].ref)
           \/ /\ Unavailable(t, m)
              /\ lastEnsure' = EnsureReturned(t, m, <<"move_to">>, 0)
              /\ UNCHANGED vc

\* ------------------------------------------------------------- _play_audio
\* the calls between their voice_client.play and the exit of their poll loop
InPlayback(g) == {u \in TtsIds : tts[u].pc = "sleeping" /\ TtsGuild(u) = g}

\* a lock that looks only at its queue, not at its holder
LockFreeNoHolder(g) == playWaiters[g] = <<>>

\* a lock that never makes a caller wait
LockFreeAlways(g) == TRUE

\* asyncio.Lock.acquire returns without waiting: nobody holds the lock and
\* nobody waits for it
LockFree(g) == playHolder[g] = 0 /\ playWaiters[g] = <<>>

\* a lock that wakes the newest waiter first
EnqueueFirst(q, t) == <<t>> \o q

\* asyncio.Lock.acquire queues the caller behind the tasks that wait
Enqueue(q, t) == Append(q, t)

\* a client that never reports a clip as playing
IsPlayingNever(t) == FALSE

\* voice_client.is_playing() on the client the call holds
IsPlaying(t) == playing[TtsGuild(t)] # 0 /\ vc[TtsGuild(t)].gen = tts[t].ref

\* voice_client.play accepts a source: connected, and no clip playing
CanPlay(t) ==
    LET g == TtsGuild(t)
    IN  vc[g].state = "connected" /\ vc[g].gen = tts[t].ref /\ playing[g] = 0

\* a finally clause that removes nothing
RemovedNever(t, rmOk) == tmpFiles \cup {t}

\* the finally clause: os.remove(path) removes the file, or raises OSError
Removed(t, rmOk) == IF rmOk THEN tmpFiles \ {t} ELSE tmpFiles \cup {t}

\* what the finally clause has done: removed the file, or logged the warning
\* and kept it
Cleanup(t, rmOk) == [fileLog EXCEPT ![t] = IF rmOk THEN "removed" ELSE "kept"]

\* The body of "async with lock" up to its first suspension, for a call that
\* has the lock: _mark_active, the temporary file, the source, play, and the
\* first is_playing().  out is what the collaborators do:
\*   "tmpfail"   tmp.write raises: the lock is released, the exception leaves
\*   "srcfail"   FFmpegPCMAudio raises: finally, release, the exception leaves
\*   "playfail"  voice_client.play raises: the same
\*   "play"      the clip plays and the call sleeps 0.25 s
\*   "ended"     the clip is over before the first is_playing()
LockedBody(t, waiters, out, rmOk) ==
    LET g == TtsGuild(t)
        played == out \in {"play", "ended"}
    IN  /\ played => CanPlay(t)
        /\ out = "tmpfail" => ~rmOk
        /\ MarkActive(g)
        /\ playWaiters' = [playWaiters EXCEPT ![g] = waiters]
        /\ playHolder' = [playHolder EXCEPT ![g] = IF out = "play" THEN t ELSE 0]
        /\ playing' = [playing EXCEPT ![g] = IF out = "play" THEN t ELSE @]
        /\ tmpFiles' = IF out = "play" THEN tmpFiles \cup {t} ELSE Removed(t, rmOk)
        /\ fileLog' = CASE out = "tmpfail" -> [fileLog EXCEPT ![t] = "unwritten"]
                         [] out = "play" -> [fileLog EXCEPT ![t] = "written"]
                         [] OTHER -> Cleanup(t, rmOk)
        /\ playLog' = [playLog EXCEPT ![g] = IF played THEN Append(@, t) ELSE @]
        /\ playOverlap' = [playOverlap EXCEPT ![g] =
                             @ \/ (out \in {"play", "ended", "playfail"}
                                   /\ InPlayback(g) \ {t} # {})]
        /\ tts' = [tts EXCEPT ![t] =
                     CASE out = "play" -> [@ EXCEPT !.pc = "sleeping"]
                       [] out = "ended" -> Returned(t, "True")
                       [] OTHER -> Returned(t, "raised")]

Outcomes == {"tmpfail", "srcfail", "playfail", "play", "ended"}

\* what the collaborators do in the playback specification: every way of
\* leaving the lock; the file system does not fail
PlayOutcomes == Outcomes \ {"tmpfail"}

PlayRemoves == {TRUE}

\* a failure that shows only after the temporary file was written
SynthRaisesLate(t) ==
    /\ tts' = [tts EXCEPT ![t] = Returned(t, "False")]
    /\ tmpFiles' = tmpFiles \cup {t}
    /\ UNCHANGED <<lastActivity, idleTasks, wd, marked, playHolder, playWaiters,
                   playing, lockLog, playLog, playOverlap, fileLog>>

\* tts.synthesize raises: logged, play_tts returns False
SynthRaises(t) ==
    /\ tts' = [tts EXCEPT ![t] = Returned(t, "False")]
    /\ UNCHANGED <<lastActivity, idleTasks, wd, marked, playHolder, playWaiters,
                   playing, tmpFiles, lockLog, playLog, playOverlap, fileLog>>

\* tts.synthesize returns the audio or raises; with the audio, _play_audio
\* takes the guild's lock or waits for it
SynthDone(t, outs, rms) ==
    /\ tts[t].pc = "synth"
    /\ UNCHANGED hotVars
    /\ UNCHANGED <<now, vc>>
    /\ lastEnsure' = NoEnsure
    /\ LET g == TtsGuild(t)
       IN  \/ SynthRaises(t)
           \/ /\ lockLog' = [lockLog EXCEPT ![g] = Append(@, t)]
              /\ IF LockFree(g)
                 THEN \E out \in outs, rmOk \in rms :
                          LockedBody(t, playWaiters[g], out, rmOk)
                 ELSE /\ playWaiters' = [playWaiters EXCEPT ![g] = Enqueue(@, t)]
                      /\ tts' = [tts EXCEPT ![t].pc = "waitlock"]
                      /\ UNCHANGED <<lastActivity, idleTasks, wd, marked, playHolder,
                                     playing, tmpFiles, playLog, playOverlap, fileLog>>

\* a release of the playback lock that wakes nobody
LockGrantedNever(t, outs, rms) ==
    /\ tts[t].pc = "waitlock"
    /\ playHolder[TtsGuild(t)] = t
    /\ UNCHANGED vars

\* the lock was released and this call is the first of those waiting
LockGranted(t, outs, rms) ==
    /\ tts[t].pc = "waitlock"
    /\ UNCHANGED hotVars
    /\ LET g == TtsGuild(t)
       IN  /\ playHolder[g] = 0
           /\ playWaiters[g] # <<>> /\ Head(playWaiters[g]) = t
           /\ \E out \in outs, rmOk \in rms :
                  LockedBody(t, Tail(playWaiters[g]), out, rmOk)
    /\ lastEnsure' = NoEnsure
    /\ UNCHANGED <<now, vc, lockLog>>

\* asyncio.sleep(0.25) returns: _mark_active, then is_playing() again; when
\* the clip is over the finally clause runs and the lock is released
PollWake(t, rmOk) ==
    /\ tts[t].pc = "sleeping"
    /\ UNCHANGED hotVars
    /\ MarkActive(TtsGuild(t))
    /\ IF IsPlaying(t)
       THEN UNCHANGED <<tts, playHolder, tmpFiles, fileLog>>
       ELSE /\ tts' = [tts EXCEPT ![t] = Returned(t, "True")]
            /\ playHolder' = [playHolder EXCEPT ![TtsGuild(t)] = 0]
            /\ tmpFiles' = Removed(t, rmOk)
            /\ fileLog' = Cleanup(t, rmOk)
    /\ lastEnsure' = NoEnsure
    /\ UNCHANGED <<now, vc, playWaiters, playing, lockLog, playLog, playOverlap>>

\* The task of a call inside _play_audio is cancelled.  Waiting for the lock
\* it leaves the queue; asleep in the poll loop it runs the finally clause and
\* releases the lock, and the clip is not stopped.  CancelledError leaves
\* play_tts.
Cancel(t, rmOk) ==
    /\ tts[t].pc \in {"waitlock", "sleeping"}
    /\ UNCHANGED hotVars
    /\ UNCHANGED <<now, lastActivity, idleTasks, wd, marked>>
    /\ UNCHANGED <<vc, playing, lockLog, playLog, playOverlap>>
    /\ lastEnsure' = NoEnsure
    /\ tts' = [tts EXCEPT ![t] = Returned(t, "cancelled")]
    /\ LET g == TtsGuild(t)
       IN  IF tts[t].pc = "waitlock"
           THEN /\ playWaiters' = [playWaiters EXCEPT ![g] =
                                     SelectSeq(@, LAMBDA u : u # t)]
                /\ UNCHANGED <<playHolder, tmpFiles, fileLog>>
           ELSE /\ playHolder' = [playHolder EXCEPT ![g] = 0]
                /\ tmpFiles' = Removed(t, rmOk)
                /\ fileLog' = Cleanup(t, rmOk)
                /\ UNCHANGED playWaiters

\* the player thread reaches the end of the clip
ClipEnds(g) ==
    /\ playing[g] # 0
    /\ UNCHANGED hotVars
    /\ playing' = [playing EXCEPT ![g] = 0]
    /\ UNCHANGED <<now, vc, tts, playHolder, playWaiters, tmpFiles, lockLog,
                   playLog, playOverlap, lastEnsure, fileLog, lastActivity,
                   idleTasks, wd, marked>>

\* ------------------------------------------------------------------- PCM
\* A bytes object of PCM is a sequence of runs, one per frame fed: len bytes
\* of 16-bit samples of magnitude amp.  Frames last whole half seconds.
HalfSecond == SecondBytes \div 2

RECURSIVE BufLen(_)
BufLen(pcm) == IF pcm = <<>> THEN 0 ELSE Head(pcm).len + BufLen(Tail(pcm))

RECURSIVE Flat(_)
Flat(chunks) == IF chunks = <<>> THEN <<>> ELSE Head(chunks) \o Flat(Tail(chunks))

\* The sum of the squared samples, counting one sample per half second of
\* PCM: every half second holds the same number of samples, so the mean
\* square is this sum over the number of half seconds.
RECURSIVE Squares(_)
Squares(pcm) ==
    IF pcm = <<>> THEN 0
    ELSE Head(pcm).amp * Head(pcm).amp * (Head(pcm).len \div HalfSecond)
         + Squares(Tail(pcm))

\* (unsigned int) sqrt(x)
Isqrt(x) == CHOOSE r \in 0 .. 32768 : r * r <= x /\ x < (r + 1) * (r + 1)

\* audioop.rms(pcm, 2)
Rms(pcm) ==
    IF BufLen(pcm) = 0 THEN 0
    ELSE Isqrt(Squares(pcm) \div (BufLen(pcm) \div HalfSecond))

\* a gate that lets every chunk pass
IsSpeechAlways(pcm) == TRUE

\* HotwordListener._is_speech: audioop.error on a torn sample is "no speech"
IsSpeech(pcm) ==
    IF BufLen(pcm) % SampleWidth # 0 THEN FALSE ELSE Rms(pcm) > RmsThreshold

\* ------------------------------------------------------- HotwordListener.feed
\* a threshold that every non-empty buffer reaches
FullAtOnce(buffer) == BufLen(buffer) > 0

\* len(buffer) >= 384000
Full(buffer) == BufLen(buffer) >= ChunkThreshold

\* only the frame just fed is handed on
TakenLast(buffer) == <<buffer[Len(buffer)]>>

\* data = bytes(buffer)
Taken(buffer) == buffer

\* a buffer that is handed on but not cleared
ClearedNot(buffer) == buffer

\* self._buffers[member.id].clear()
Cleared(buffer) == <<>>

FreeProc == {i \in ProcIds : proc[i].pc = "none"}

NewProc == CHOOSE i \in FreeProc : \A j \in FreeProc : i <= j

NoTask == [pc |-> "none", member |-> None, met |-> 0, metIn |-> "none",
           heard |-> FALSE, calls |-> 0, command |-> <<>>]

\* asyncio.create_task(self._process(member, data))
Scheduled(m) == [NoTask EXCEPT !.pc = "scheduled", !.member = m]

\* feed(member, pcm), for a member or None
FeedBody(m, pcm) ==
    /\ feeds < MaxFeeds
    /\ feeds' = feeds + 1
    /\ UNCHANGED <<processing, callback, lastHeard>>
    /\ IF m = None \/ pcm.len = 0
       THEN /\ lastFeed' = [member |-> m, len |-> pcm.len,
                            before |-> IF m = None THEN 0 ELSE BufLen(buffers[m]),
                            evals |-> 0, tasks |-> 0]
            /\ UNCHANGED <<buffers, proc, fed, gated>>
       ELSE LET buffer == Append(buffers[m], pcm)
                speech == Full(buffer) /\ IsSpeech(Taken(buffer))
                data == Taken(buffer)
            IN  /\ fed' = [fed EXCEPT ![m] = Append(@, pcm)]
                /\ buffers' = [buffers EXCEPT ![m] =
                                 IF Full(buffer) THEN Cleared(buffer) ELSE buffer]
                /\ gated' = [gated EXCEPT ![m] =
                               IF Full(buffer) THEN Append(@, data) ELSE @]
                /\ proc' = IF speech THEN [proc EXCEPT ![NewProc] = Scheduled(m)]
                           ELSE proc
                /\ lastFeed' = [member |-> m, len |-> pcm.len,
                                before |-> BufLen(buffers[m]),
                                evals |-> IF Full(buffer) THEN 1 ELSE 0,
                                tasks |-> IF speech THEN 1 ELSE 0]

Feed(m, pcm) ==
    /\ FeedBody(m, pcm)
    /\ UNCHANGED <<playVars, idleVars>>

\* --------------------------------------------------- HotwordListener._process
\* what transcribe_pcm returns: result.text.strip() of the Whisper decoding
Transcripts ==
    { <<>>,
      <<"x">>,
      Key,
      Key \o <<Space, "x">>,
      <<"O", "R", "A", "L", "L", "M", "x">>,
      <<"x", Space>> \o Key \o <<Space, "x", Space>> \o Key \o <<"x">>,
      <<"I.">> \o Key \o <<"x">>,
      <<"I.">> \o Key \o <<"x", "x">> }

\* a lock nobody sees as taken
LockedNever(m) == FALSE

\* lock.locked()
Locked(m) == processing[m] # 0

\* command = transcript[index + len(key):].strip(), index found in lower
Command(transcript) ==
    Strip(From(transcript, Index(Lower(transcript), Key) + Len(Key)))

\* lines 70-81: the transcript carries a command to dispatch
Dispatches(transcript) ==
    /\ transcript # <<>>
    /\ Contains(Lower(transcript), Key)
    /\ Command(transcript) # <<>>

\* HotwordListener.set_callback
SetCallback(cb) ==
    /\ callback' = cb
    /\ UNCHANGED <<buffers, processing, proc, feeds, fed, gated, lastFeed, lastHeard>>
    /\ UNCHANGED <<playVars, idleVars>>

\* a _process task starts (tasks start in the order of their creation): it
\* returns if the speaker's lock is taken, else takes it and awaits
\* transcribe_pcm
Start(t) ==
    /\ proc[t].pc = "scheduled"
    /\ \A u \in ProcIds : u < t => proc[u].pc # "scheduled"
    /\ LET m == proc[t].member
       IN  IF Locked(m)
           THEN /\ proc' = [proc EXCEPT ![t].pc = "dropped", ![t].met = processing[m],
                                        ![t].metIn = proc[processing[m]].pc]
                /\ UNCHANGED processing
           ELSE /\ proc' = [proc EXCEPT ![t].pc = "transcribing", ![t].met = processing[m]]
                /\ processing' = [processing EXCEPT ![m] = t]
    /\ UNCHANGED <<buffers, callback, feeds, fed, gated, lastFeed, lastHeard>>
    /\ UNCHANGED <<playVars, idleVars>>

\* a failure that returns without leaving the lock section
TranscribeFailsLocked(t) ==
    /\ proc[t].pc = "transcribing"
    /\ proc' = [proc EXCEPT ![t].pc = "done", ![t].heard = TRUE]
    /\ lastHeard' = [task |-> t, text |-> <<>>, failed |-> TRUE, callback |-> callback]
    /\ UNCHANGED <<buffers, processing, callback, feeds, fed, gated, lastFeed>>
    /\ UNCHANGED <<playVars, idleVars>>

\* transcribe_pcm raises: logged, the lock is released
TranscribeFails(t) ==
    /\ proc[t].pc = "transcribing"
    /\ proc' = [proc EXCEPT ![t].pc = "done", ![t].heard = TRUE]
    /\ processing' = [processing EXCEPT ![proc[t].member] = 0]
    /\ lastHeard' = [task |-> t, text |-> <<>>, failed |-> TRUE, callback |-> callback]
    /\ UNCHANGED <<buffers, callback, feeds, fed, gated, lastFeed>>
    /\ UNCHANGED <<playVars, idleVars>>

\* a callback awaited after the lock section
DispatchedUnlocked(t, transcript) ==
    /\ proc' = [proc EXCEPT ![t].pc = "callback", ![t].heard = TRUE,
                    ![t].calls = @ + 1, ![t].command = Command(transcript)]
    /\ processing' = [processing EXCEPT ![proc[t].member] = 0]

\* await self._callback(member, command), inside async with lock
Dispatched(t, transcript) ==
    /\ proc' = [proc EXCEPT ![t].pc = "callback", ![t].heard = TRUE,
                    ![t].calls = @ + 1, ![t].command = Command(transcript)]
    /\ UNCHANGED processing

\* transcribe_pcm returns transcript: the callback is awaited with the command,
\* or _process returns and the lock is released
Transcribed(t, transcript) ==
    /\ proc[t].pc = "transcribing"
    /\ lastHeard' = [task |-> t, text |-> transcript, failed |-> FALSE,
                     callback |-> callback]
    /\ IF Dispatches(transcript) /\ callback # None
       THEN Dispatched(t, transcript)
       ELSE /\ proc' = [proc EXCEPT ![t].pc = "done", ![t].heard = TRUE]
            /\ processing' = [processing EXCEPT ![proc[t].member] = 0]
    /\ UNCHANGED <<buffers, callback, feeds, fed, gated, lastFeed>>
    /\ UNCHANGED <<playVars, idleVars>>

\* the callback returns, or raises: the lock is released either way, and an
\* exception leaves _process
CallbackDone(t, raised) ==
    /\ proc[t].pc = "callback"
    /\ proc' = [proc EXCEPT ![t].pc = IF raised THEN "raised" ELSE "done",
                            ![t].command = <<>>]
    /\ processing' = [processing EXCEPT ![proc[t].member] = 0]
    /\ UNCHANGED <<buffers, callback, feeds, fed, gated, lastFeed, lastHeard>>
    /\ UNCHANGED <<playVars, idleVars>>

\* ------------------------------------------------------------- _watch_idle
\* idle > self._idle_timeout
ExpiredLate(g) ==
    now - (IF lastActivity[g] = -1 THEN 0 ELSE lastActivity[g]) > IdleTimeout

\* idle = time.monotonic() - self._last_activity.get(guild_id, 0);
\* idle >= self._idle_timeout
Expired(g) ==
    now - (IF lastActivity[g] = -1 THEN 0 ELSE lastActivity[g]) >= IdleTimeout

\* asyncio.sleep(30) returns, not before its 30 s are over.  Without a guild
\* or a voice client the task returns; idle for the timeout it awaits
\* disconnect; else it sleeps again.  Returning runs the finally clause.
WatchWake(i) ==
    /\ wd[i].pc = "sleep"
    /\ now >= wd[i].wakeAt
    /\ LET g == wd[i].guild
       IN  IF vc[g].state = "none"
           THEN /\ wd' = [wd EXCEPT ![i].pc = "done"]
                /\ idleTasks' = [idleTasks EXCEPT ![g] = 0]
           ELSE IF Expired(g)
           THEN /\ wd' = [wd EXCEPT ![i].pc = "disconnecting"]
                /\ UNCHANGED idleTasks
           ELSE /\ wd' = [wd EXCEPT ![i].wakeAt = now + PollInterval]
                /\ UNCHANGED idleTasks
    /\ UNCHANGED <<now, lastActivity, marked, playVars, hotVars>>

\* voice_client.disconnect(force=True) returns (the client is gone and its
\* player stopped) or raises (logged); the task returns either way and the
\* finally clause pops the guild's entry of _idle_tasks
DisconnectDone(i, ok) ==
    /\ wd[i].pc = "disconnecting"
    /\ LET g == wd[i].guild
       IN  /\ wd' = [wd EXCEPT ![i].pc = "done"]
           /\ idleTasks' = [idleTasks EXCEPT ![g] = 0]
           /\ vc' = IF ok THEN [vc EXCEPT ![g] = [NoClient EXCEPT !.gen = vc[g].gen]]
                    ELSE vc
           /\ playing' = IF ok THEN [playing EXCEPT ![g] = 0] ELSE playing
    /\ UNCHANGED <<now, lastActivity, marked, hotVars>>
    /\ UNCHANGED <<tts, playHolder, playWaiters, tmpFiles, lockLog, playLog,
                   playOverlap, lastEnsure, fileLog>>

\* the platform drops the guild's voice client (the bot is moved out of the
\* channel or leaves the guild)
Dropped(g) ==
    /\ vc[g].state = "connected"
    /\ vc' = [vc EXCEPT ![g] = [NoClient EXCEPT !.gen = vc[g].gen]]
    /\ playing' = [playing EXCEPT ![g] = 0]
    /\ UNCHANGED <<idleVars, hotVars>>
    /\ UNCHANGED <<tts, playHolder, playWaiters, tmpFiles, lockLog, playLog,
                   playOverlap, lastEnsure, fileLog>>

\* the clock is read every half poll interval
ClockStep == PollInterval \div 2

\* time.monotonic() moves on to its next reading.  The event loop is not
\* held up: a watchdog whose sleep is over has run, and a poll loop, which
\* sleeps 0.25 s, has run since the clock showed the present reading.
Tick ==
    /\ now + ClockStep <= MaxTime
    /\ \A i \in WdIds : wd[i].pc = "sleep" => now < wd[i].wakeAt
    /\ \A t \in TtsIds : tts[t].pc = "sleeping" => marked[tts[t].guild] = now
    /\ now' = now + ClockStep
    /\ UNCHANGED <<lastActivity, idleTasks, wd, marked, playVars, hotVars>>

\* _on_voice_frame(guild, user, data): the sink of a listening client hands
\* over a frame; without a member or without PCM it is dropped, else the
\* guild is marked active and the frame is fed
OnVoiceFrame(g, user, pcm) ==
    /\ vc[g].state = "connected" /\ vc[g].listening
    /\ user # None => MemberGuild(user) = g
    /\ IF user = None \/ pcm.len = 0
       THEN UNCHANGED <<idleVars, hotVars>>
       ELSE /\ MarkActive(g)
            /\ FeedBody(user, pcm)
            /\ UNCHANGED now
    /\ UNCHANGED playVars

\* ------------------------------------------------------------ construction
\* VoiceManager.__init__ and HotwordListener.__init__; no voice client yet
Init ==
    /\ now = 0
    /\ vc = [g \in Guilds |-> NoClient]
    /\ lastActivity = [g \in Guilds |-> -1]
    /\ idleTasks = [g \in Guilds |-> 0]
    /\ wd = [i \in WdIds |-> [pc |-> "none", guild |-> None, wakeAt |-> 0]]
    /\ marked = [g \in Guilds |-> -1]
    /\ tts = [t \in TtsIds |-> IdleCall]
    /\ playHolder = [g \in Guilds |-> 0]
    /\ playWaiters = [g \in Guilds |-> <<>>]
    /\ playing = [g \in Guilds |-> 0]
    /\ tmpFiles = {}
    /\ lockLog = [g \in Guilds |-> <<>>]
    /\ playLog = [g \in Guilds |-> <<>>]
    /\ playOverlap = [g \in Guilds |-> FALSE]
    /\ lastEnsure = NoEnsure
    /\ fileLog = [t \in TtsIds |-> "none"]
    /\ buffers = [m \in Members |-> <<>>]
    /\ processing = [m \in Members |-> 0]
    /\ callback = None
    /\ proc = [i \in ProcIds |-> NoTask]
    /\ feeds = 0
    /\ fed = [m \in Members |-> <<>>]
    /\ gated = [m \in Members |-> <<>>]
    /\ lastFeed = [member |-> None, len |-> 0, before |-> 0, evals |-> 0, tasks |-> 0]
    /\ lastHeard = [task |-> 0, text |-> <<>>, failed |-> FALSE, callback |-> None]

\* ----------------------------------------------------- playback: play_tts
NextPlay ==
    \/ \E t \in TtsIds, m \in Members, text \in Texts : PlayTts(t, m, text)
    \/ \E t \in TtsIds : ConnectDone(t)
    \/ \E t \in TtsIds : MoveDone(t)
    \/ \E t \in TtsIds : SynthDone(t, PlayOutcomes, PlayRemoves)
    \/ \E t \in TtsIds : LockGranted(t, PlayOutcomes, PlayRemoves)
    \/ \E t \in TtsIds, rmOk \in PlayRemoves : PollWake(t, rmOk)
    \/ \E g \in Guilds : ClipEnds(g)

SpecPlay == Init /\ [][NextPlay]_vars

\* ------------------------------------------------------- capture: feed alone
Silent == 0

Loud == 5 * RmsThreshold

\* the frames fed: no PCM at all; half a second of silence or of loud sound;
\* a second of loud sound; two seconds that are silent, loud, or just as loud
\* as the gate's threshold; three seconds of loud sound
Frames ==
    { [amp |-> Silent, len |-> 0],
      [amp |-> Silent, len |-> HalfSecond],
      [amp |-> Silent, len |-> 2 * SecondBytes],
      [amp |-> Loud, len |-> HalfSecond],
      [amp |-> Loud, len |-> SecondBytes],
      [amp |-> Loud, len |-> 2 * SecondBytes],
      [amp |-> RmsThreshold, len |-> 2 * SecondBytes],
      [amp |-> Loud, len |-> 3 * SecondBytes] }

Speakers == {"m1", "m2"}

NextFeed == \E m \in Speakers \cup {None}, pcm \in Frames : Feed(m, pcm)

SpecFeed == Init /\ [][NextFeed]_vars

\* -------------------------------------------- capture: the hotword listener
\* two seconds of loud sound, or of silence
FullFrames == [amp : {Silent, Loud}, len : {2 * SecondBytes}]

NextHot ==
    \/ \E m \in Speakers, pcm \in FullFrames : Feed(m, pcm)
    \/ SetCallback("handle_hotword")
    \/ \E t \in ProcIds : Start(t)
    \/ \E t \in ProcIds : TranscribeFails(t)
    \/ \E t \in ProcIds, transcript \in Transcripts : Transcribed(t, transcript)
    \/ \E t \in ProcIds, raised \in BOOLEAN : CallbackDone(t, raised)

SpecHot == Init /\ [][NextHot]_vars

\* ------------------------------------------------------ the idle watchdog
\* one play_tts call of one member, and frames of that member
IdleCalls == {1}

IdleFrames == {[amp |-> Silent, len |-> 0], [amp |-> Silent, len |-> HalfSecond]}

NextIdle ==
    \/ Tick
    \/ \E t \in IdleCalls : PlayTts(t, "m1", <<"h", "i">>)
    \/ \E t \in IdleCalls : ConnectDone(t)
    \/ \E t \in IdleCalls : SynthDone(t, PlayOutcomes, PlayRemoves)
    \/ \E t \in IdleCalls, rmOk \in PlayRemoves : PollWake(t, rmOk)
    \/ ClipEnds("g1")
    \/ \E user \in {"m1", None}, pcm \in IdleFrames : OnVoiceFrame("g1", user, pcm)
    \/ \E i \in WdIds : WatchWake(i)
    \/ \E i \in WdIds, ok \in BOOLEAN : DisconnectDone(i, ok)
    \/ Dropped("g1")

SpecIdle == Init /\ [][NextIdle]_vars

\* ------------------------------------- play_tts with every collaborator failure
\* the calls made: one fewer than in the playback specification, with every
\* outcome of the file system and the player
SpeakCalls == 1 .. MaxPlayCalls - 1

NextSpeak ==
    \/ \E t \in SpeakCalls, m \in Members, text \in Texts : PlayTts(t, m, text)
    \/ \E t \in SpeakCalls : ConnectDone(t)
    \/ \E t \in SpeakCalls : MoveDone(t)
    \/ \E t \in SpeakCalls : SynthDone(t, Outcomes, BOOLEAN)
    \/ \E t \in SpeakCalls : LockGranted(t, Outcomes, BOOLEAN)
    \/ \E t \in SpeakCalls, rmOk \in BOOLEAN : PollWake(t, rmOk)
    \/ \E t \in SpeakCalls, rmOk \in BOOLEAN : Cancel(t, rmOk)
    \/ \E g \in Guilds : ClipEnds(g)
    \/ \E g \in Guilds : Dropped(g)

SpecSpeak == Init /\ [][NextSpeak]_vars

\* ------------------------------------------------------ the whole pipeline
Next ==
    \/ Tick
    \/ \E t \in TtsIds, m \in Members, text \in Texts : PlayTts(t, m, text)
    \/ \E t \in TtsIds : ConnectDone(t)
    \/ \E t \in TtsIds : MoveDone(t)
    \/ \E t \in TtsIds : SynthDone(t, Outcomes, BOOLEAN)
    \/ \E t \in TtsIds : LockGranted(t, Outcomes, BOOLEAN)
    \/ \E t \in TtsIds, rmOk \in BOOLEAN : PollWake(t, rmOk)
    \/ \E g \in Guilds : ClipEnds(g)
    \/ \E g \in Guilds : Dropped(g)
    \/ \E g \in Guilds, user \in Members \cup {None}, pcm \in Frames :
           OnVoiceFrame(g, user, pcm)
    \/ SetCallback("handle_hotword")
    \/ \E t \in ProcIds : Start(t)
    \/ \E t \in ProcIds : TranscribeFails(t)
    \/ \E t \in ProcIds, transcript \in Transcripts : Transcribed(t, transcript)
    \/ \E t \in ProcIds, raised \in BOOLEAN : CallbackDone(t, raised)
    \/ \E i \in WdIds : WatchWake(i)
    \/ \E i \in WdIds, ok \in BOOLEAN : DisconnectDone(i, ok)

Spec == Init /\ [][Next]_vars

\* ------------------------------------------------------ playback: claims
\* x stands before y in the sequence s
Before(s, x, y) == \E i, j \in 1 .. Len(s) : i < j /\ s[i] = x /\ s[j] = y

\* the calls of guild g that are awaiting tts.synthesize
Synthesizing(g) == {u \in TtsIds : tts[u].pc = "synth" /\ tts[u].guild = g}

\* C1: for every guild at most one play_tts call is between its
\* voice_client.play and the exit of its is_playing poll loop, and no call
\* ever reached voice_client.play while another call of the guild was there.
C1_OneClipPerGuild ==
    \A g \in Guilds : Cardinality(InPlayback(g)) <= 1 /\ ~playOverlap[g]

\* C1 witness: a clip is playing while two other calls of the guild have their
\* audio and wait for the lock.
C1_Witness ==
    \E g \in Guilds : InPlayback(g) # {} /\ playing[g] # 0 /\ Len(playWaiters[g]) >= 2

InFlight(m) ==
    {t \in ProcIds : proc[t].member = m /\ proc[t].pc \in {"transcribing", "callback"}}

\* the speakers that have fed audio
SpeakersSeen == {m \in Members : fed[m] # <<>>}

\* C4: for every speaker at most one _process task is inside the lock section
\* (transcription, then callback), and the tasks inside it are never more than
\* the speakers.
C4_OneTranscriptionPerSpeaker ==
    /\ \A m \in Members : Cardinality(InFlight(m)) <= 1
    /\ Cardinality(UNION {InFlight(m) : m \in Members}) <= Cardinality(SpeakersSeen)

\* C4 witness: two speakers each have a transcription in flight while a
\* later chunk of one of them has been turned away.
C4_Witness ==
    /\ \A m \in Speakers : InFlight(m) # {}
    /\ \E t \in ProcIds : proc[t].pc = "dropped"

\* C5: a _process task that started while another task held its speaker's
\* lock was dropped: it never transcribed, never invoked the callback and
\* stays dropped; the task that held the lock invoked the callback at most
\* once.
C5_OverlapDropped ==
    \A t \in ProcIds :
        proc[t].met # 0 =>
            /\ proc[t].pc = "dropped"
            /\ ~proc[t].heard
            /\ proc[t].calls = 0
            /\ proc[proc[t].met].calls <= 1

\* C5 witness: a task met the lock of a task that has since finished, having
\* invoked the callback once, and a later chunk of the speaker is in
\* transcription.
C5_Witness ==
    \E t, u \in ProcIds :
        /\ proc[t].met # 0
        /\ proc[proc[t].met].pc = "done" /\ proc[proc[t].met].calls = 1
        /\ proc[u].member = proc[t].member /\ proc[u].pc = "transcribing"

\* the transcript reads "orallm", in any case, from its character i + 1 on
WakeAt(s, i) == \A k \in 1 .. Len(Key) : CharLower(s[i + k]) = <<Key[k]>>

WakePlaces(s) == {i \in 0 .. Len(s) - Len(Key) : WakeAt(s, i)}

\* the text after the first wake phrase of the transcript
AfterWake(s) ==
    From(s, (CHOOSE i \in WakePlaces(s) : \A j \in WakePlaces(s) : i <= j) + Len(Key))

\* the claim's condition for a dispatch
ShouldDispatch(s) == s # <<>> /\ WakePlaces(s) # {} /\ Strip(AfterWake(s)) # <<>>

\* C6 as claimed: no chunk invokes the callback twice, and the chunk whose
\* transcription ended last, a callback being registered, invoked it once if
\* the transcription succeeded, the transcript holds the wake phrase and the
\* trimmed text after it is not empty, and not at all otherwise.
C6_CallbackExactlyOnce ==
    /\ \A t \in ProcIds : proc[t].calls <= 1
    /\ (lastHeard.task # 0 /\ lastHeard.callback # None) =>
           proc[lastHeard.task].calls =
               IF ~lastHeard.failed /\ ShouldDispatch(lastHeard.text) THEN 1 ELSE 0

\* the latest feed call was for a speaker m and ended with total bytes to hold
FedTotal == lastFeed.before + lastFeed.len

\* C7: a feed that leaves the speaker's accumulated length below the
\* threshold evaluates no gate, schedules no task and lengthens the buffer by
\* the length of the frame.
C7_BelowThreshold ==
    (lastFeed.member # None /\ FedTotal < ChunkThreshold) =>
        /\ lastFeed.evals = 0
        /\ lastFeed.tasks = 0
        /\ BufLen(buffers[lastFeed.member]) = FedTotal

\* C7 witness: a frame was added to a buffer that was not empty, and the
\* buffer is still below the threshold.
C7_Witness ==
    /\ lastFeed.member # None
    /\ lastFeed.before > 0 /\ lastFeed.len > 0
    /\ FedTotal < ChunkThreshold

\* C8 as claimed: a feed that reaches the threshold evaluates the gate once
\* per threshold crossed and keeps the bytes beyond the threshold in the
\* buffer.
C8_ResidualKept ==
    (lastFeed.member # None /\ FedTotal >= ChunkThreshold) =>
        /\ lastFeed.evals = FedTotal \div ChunkThreshold
        /\ BufLen(buffers[lastFeed.member]) = FedTotal % ChunkThreshold

\* C8 as amended: a feed that reaches the threshold evaluates the gate once,
\* on the whole accumulated buffer, the bytes beyond the threshold with it,
\* and leaves the buffer empty.
C8_WholeBufferFlushed ==
    (lastFeed.member # None /\ FedTotal >= ChunkThreshold) =>
        LET m == lastFeed.member
        IN  /\ lastFeed.evals = 1
            /\ buffers[m] = <<>>
            /\ gated[m] # <<>>
            /\ BufLen(gated[m][Len(gated[m])]) = FedTotal

\* C8 witness: a feed took a buffer that was not empty beyond the threshold.
C8_Witness ==
    /\ lastFeed.member # None
    /\ lastFeed.before > 0
    /\ FedTotal > ChunkThreshold

\* C9: for every speaker the chunks handed to the gate, in order, followed by
\* the buffer are the frames fed, in order; and no buffer is ever left at or
\* above the threshold by the feed call that filled it.
C9_NoByteLost ==
    \A m \in Members :
        /\ Flat(gated[m]) \o buffers[m] = fed[m]
        /\ BufLen(buffers[m]) < ChunkThreshold

\* C9 witness: a speaker's first chunk was made of several frames, and frames
\* fed since are in the buffer.
C9_Witness ==
    \E m \in Members :
        /\ gated[m] # <<>>
        /\ Len(gated[m][1]) >= 2
        /\ buffers[m] # <<>>

\* ------------------------------------------------- idle watchdog: claims
\* in this step watchdog task i wakes from its sleep and finds a voice client
Polls(i) ==
    /\ wd[i].pc = "sleep"
    /\ wd'[i] # wd[i]
    /\ vc[wd[i].guild].state # "none"

\* C10: at a poll tick the watchdog goes on to disconnect the guild's voice
\* client exactly if the time since the guild's last activity mark is at least
\* the timeout, and a watchdog that has done so polls no more: the disconnect
\* comes at the first tick that finds the timeout elapsed, and at no earlier
\* one.
C10_DisconnectAtFirstExpiredTick ==
    [][\A i \in WdIds :
          /\ Polls(i) =>
                 (wd'[i].pc = "disconnecting"
                      <=> now - marked[wd[i].guild] >= IdleTimeout)
          /\ wd[i].pc \in {"disconnecting", "done"} => wd'[i].pc # "sleep"]_vars

\* C10 witness: a watchdog is disconnecting a guild that was marked active
\* several times, the last time between two of its ticks: the tick before
\* found the guild idle for less than the timeout, this one for more.
C10_Witness ==
    \E i \in WdIds :
        /\ wd[i].pc = "disconnecting"
        /\ marked[wd[i].guild] > 0
        /\ now - marked[wd[i].guild] = IdleTimeout + ClockStep

\* the watchdog tasks of guild g that have been created and have not returned
WdLive(g) == {i \in WdIds : wd[i].guild = g /\ wd[i].pc \in {"sleep", "disconnecting"}}

\* in this step a watchdog task is created for guild g
Spawned(g) == \E i \in WdIds : wd[i].pc = "none" /\ wd'[i].pc # "none" /\ wd'[i].guild = g

\* C11: a guild never has two live watchdog tasks, and a live one is the
\* registered one.  A watchdog is created only by an activity mark made while
\* the guild has no live watchdog; a mark made while there is none (none yet,
\* or the last one has returned) creates one, and a mark made while one lives
\* changes the timestamp only.
C11_OneWatchdogPerGuild ==
    /\ [](\A g \in Guilds :
             /\ Cardinality(WdLive(g)) <= 1
             /\ WdLive(g) # {} => idleTasks[g] \in WdLive(g))
    /\ [][\A g \in Guilds :
             /\ Spawned(g) => WdLive(g) = {} /\ marked'[g] = now
             /\ marked'[g] # marked[g] =>
                    /\ Spawned(g) <=> WdLive(g) = {}
                    /\ WdLive(g) # {} => wd' = wd /\ idleTasks' = idleTasks]_vars

\* C11 witness: the guild's first watchdog has returned, a mark has created a
\* second one, and a later mark, made while the second one sleeps, has
\* created no third.
C11_Witness ==
    \E g \in Guilds :
        /\ wd[1].pc = "done" /\ wd[1].guild = g
        /\ WdLive(g) = {2}
        /\ wd[2].pc = "sleep"
        /\ marked[g] = now
        /\ wd[2].wakeAt < now + PollInterval


Calls(t, m) ==
    /\ tts[t].pc = "idle"
    /\ tts'[t].pc # "idle"
    /\ tts'[t].member = m \/ (lastEnsure'.call = t /\ lastEnsure'.member = m)

\* in this step the ensure_voice_client call of call t returns
EnsureReturns(t) ==
    /\ tts[t].pc \in {"idle", "connecting", "moving"}
    /\ tts'[t].pc \in {"synth", "done"}
    /\ lastEnsure'.call = t

C14_EnsureNeverRaises ==
    [][\A t \in TtsIds :
          /\ EnsureReturns(t) =>
                 /\ tts'[t].result # "raised"
                 /\ lastEnsure'.ref = 0 =>
                        /\ tts'[t].result = "False"
                        /\ UNCHANGED <<lastActivity, idleTasks, wd, marked>>
          /\ \A m \in Members :
                 (Calls(t, m) /\ MemberChannel(m) = None) =>
                     /\ EnsureReturns(t)
                     /\ lastEnsure'.ref = 0
                     /\ lastEnsure'.ops = <<>>
                     /\ UNCHANGED vc]_vars

\* C14 witness: the connect of the second call has raised, after a first call
\* that returned False: no guild has a client, a timestamp or a watchdog.
C14_Witness ==
    /\ lastEnsure.call = 2
    /\ lastEnsure.ref = 0
    /\ lastEnsure.ops = <<"connect">>
    /\ tts[1].result = "False"
    /\ \A g \in Guilds :
           vc[g].state = "none" /\ lastActivity[g] = -1 /\ WdLive(g) = {}


\* ------------------------------------------------------- play_tts: claims
\* C15 as claimed: no collaborator exception leaves play_tts: a call that is
\* over has returned True or False (or was cancelled), it has not raised.
C15_FailuresReturnFalse ==
    \A t \in TtsIds : tts[t].pc = "done" => tts[t].result # "raised"


\* C16 as claimed: once a call is over its temporary file does not exist,
\* whatever happened.
C16_NoFileLeft ==
    \A t \in TtsIds : tts[t].pc = "done" => t \notin tmpFiles

\* C16 as amended: once a call is over, the finally clause has dealt with every
\* file that was written (after playback, after an exception, after a
\* cancellation), and the file is gone unless os.remove raised and the
\* warning was logged; the only other file left is one whose writing raised.
C16_FileRemovedUnlessRemoveFails ==
    \A t \in TtsIds :
        tts[t].pc = "done" =>
            /\ fileLog[t] \in {"none", "unwritten", "removed", "kept"}
            /\ t \in tmpFiles <=> fileLog[t] \in {"kept", "unwritten"}
            /\ tts[t].result = "True" => fileLog[t] \in {"removed", "kept"}

\* C16 witness: one call has played its clip to the end and another has left
\* _play_audio with an exception or a cancellation after its file was written;
\* both files were removed.
C16_Witness ==
    \E a, b \in TtsIds :
        /\ tts[a].result = "True" /\ fileLog[a] = "removed" /\ a \notin tmpFiles
        /\ tts[b].result \in {"raised", "cancelled"}
        /\ fileLog[b] = "removed" /\ b \notin tmpFiles


\* in this step call t, which has an empty or blank text, is made or goes on
BlankStep(t) ==
    \/ \E m \in Members, text \in Texts : Strip(text) = <<>> /\ PlayTts(t, m, text)
    \/ /\ tts[t].pc \in {"connecting", "moving"}
       /\ Strip(tts[t].text) = <<>>
       /\ tts'[t] # tts[t]

\* C17 as claimed: a call with an empty text returns at once, so no call that
\* awaits connect or move_to has an empty or blank text.
C17_ReturnsAtOnce ==
    \A t \in TtsIds :
        tts[t].pc \in {"connecting", "moving"} => Strip(tts[t].text) # <<>>

\* C17 as amended: a call with an empty or blank text goes through
\* ensure_voice_client like any call (it may await connect or move_to) and
\* then returns False in the step in which ensure_voice_client returns: it
\* never awaits the synthesis, never waits for or holds the playback lock,
\* starts no clip and writes no file.
C17_BlankTextReturnsFalse ==
    /\ [](\A t \in TtsIds :
             tts[t].pc \in {"synth", "waitlock", "sleeping"} => Strip(tts[t].text) # <<>>)
    /\ [][\A t \in TtsIds :
             BlankStep(t) =>
                 /\ \/ tts'[t].pc \in {"connecting", "moving"}
                    \/ tts'[t].pc = "done" /\ tts'[t].result = "False"
                 /\ UNCHANGED <<playHolder, playWaiters, playing, tmpFiles, lockLog,
                                playLog, fileLog>>]_vars

\* C17 witness: a call has connected, got its client from ensure_voice_client
\* and returned False in that very step, as only a call with a blank text
\* does; no lock is held, no clip plays, no file exists.
C17_Witness ==
    \E t \in TtsIds :
        /\ lastEnsure.call = t
        /\ lastEnsure.ops = <<"connect", "listen">>
        /\ lastEnsure.ref # 0
        /\ tts[t].pc = "done" /\ tts[t].result = "False"
        /\ \A g \in Guilds : playHolder[g] = 0 /\ playing[g] = 0
        /\ tmpFiles = {}


\* the calls whose clip has started playing on guild g
Started(g) == {playLog[g][i] : i \in 1 .. Len(playLog[g])}

\* C18: a call has returned True only if voice_client.play took its clip and
\* its finally clause has run; a call leaves the poll loop only when its clip
\* is no longer playing, and then, unless it was cancelled, it returns True
\* whether os.remove succeeded or raised.
C18_TrueOnlyAfterPlayback ==
    /\ [](\A t \in TtsIds :
             tts[t].result = "True" =>
                 /\ tts[t].pc = "done"
                 /\ t \in Started(tts[t].guild)
                 /\ fileLog[t] \in {"removed", "kept"})
    /\ [][\A t \in TtsIds :
             (tts[t].pc = "sleeping" /\ tts'[t].pc = "done"
                  /\ tts'[t].result # "cancelled") =>
                 /\ playing[tts[t].guild] # t
                 /\ tts'[t].result = "True"
                 /\ fileLog'[t] \in {"removed", "kept"}]_vars

\* C18 witness: a call whose clip was started has returned True although its
\* os.remove raised and the file is still there.
C18_Witness ==
    \E t \in TtsIds :
        /\ tts[t].result = "True"
        /\ fileLog[t] = "kept"
        /\ t \in tmpFiles
        /\ t \in Started(tts[t].guild)


\* ------------------------------------------------ the activity gate: claims
\* the _process tasks created for speaker m
Tasks(m) == {t \in ProcIds : proc[t].member = m}

\* the chunks of speaker m whose RMS is above the threshold
Accepted(m) == {i \in 1 .. Len(gated[m]) : Rms(gated[m][i]) > RmsThreshold}

\* C19: a feed that hands the gate a chunk whose RMS is not above the
\* threshold schedules no task, keeps nothing of the chunk and leaves the
\* buffer empty; over all feeds a speaker has as many tasks, hence at most as
\* many transcriptions, as chunks above the threshold.
C19_RejectedChunkDropped ==
    /\ \A m \in Members : Cardinality(Tasks(m)) = Cardinality(Accepted(m))
    /\ LET m == lastFeed.member
       IN  (/\ m # None
            /\ lastFeed.evals = 1
            /\ Rms(gated[m][Len(gated[m])]) <= RmsThreshold) =>
               /\ lastFeed.tasks = 0
               /\ buffers[m] = <<>>

\* C19 witness: a chunk of several frames, two seconds or more, was rejected:
\* no task, and the buffer is empty.
C19_Witness ==
    /\ lastFeed.member # None
    /\ lastFeed.evals = 1
    /\ lastFeed.tasks = 0
    /\ lastFeed.before > 0
    /\ buffers[lastFeed.member] = <<>>


\* C20 as claimed: when ensure_voice_client returns a client, on whichever
\* path, that client is the guild's, it is in the member's channel, it is
\* listening, and the guild has just been marked active.
C20_EnsuredConnectionReady ==
    [][\A t \in TtsIds :
          (EnsureReturns(t) /\ lastEnsure'.ref # 0) =>
              LET m == lastEnsure'.member
                  g == MemberGuild(m)
              IN  /\ vc'[g].gen = lastEnsure'.ref
                  /\ vc'[g].channel = MemberChannel(m)
                  /\ vc'[g].listening
                  /\ marked'[g] = now]_vars


\* the calls that have asked for the playback lock of guild g
Requested(g) == {lockLog[g][i] : i \in 1 .. Len(lockLog[g])}

\* C21: a call whose synthesis fails returns False in that step, and the step
\* touches neither the playback lock nor the player nor the files; a call
\* that has returned False has never asked for the lock, never started a clip
\* and never had a temporary file.
C21_SynthesisFailure ==
    /\ [](\A t \in TtsIds :
             tts[t].result = "False" =>
                 /\ t \notin Requested(tts[t].guild)
                 /\ t \notin Started(tts[t].guild)
                 /\ fileLog[t] = "none" /\ t \notin tmpFiles
                 /\ \A g \in Guilds : playHolder[g] # t)
    /\ [][\A t \in TtsIds :
             (tts[t].pc = "synth" /\ tts'[t].pc = "done"
                  /\ t \notin Requested(tts[t].guild)') =>
                 /\ tts'[t].result = "False"
                 /\ UNCHANGED <<playHolder, playWaiters, playing, tmpFiles, playLog,
                                fileLog>>]_vars

\* C21 witness: the only call made so far got its client, awaited the
\* synthesis and returned False when it raised.
C21_Witness ==
    /\ tts[1].result = "False"
    /\ lastEnsure = NoEnsure
    /\ \A u \in TtsIds : u # 1 => tts[u].pc = "idle"
    /\ marked[tts[1].guild] = now


\* the step in which the transcription of task t raises
FailsNow(t) ==
    proc[t].pc = "transcribing" /\ lastHeard'.task = t /\ lastHeard'.failed

\* C22: the step in which a transcription raises ends the task normally,
\* with no callback invoked and the speaker's lock free; a task that is over
\* never runs again (no retry); and a task that starts while its speaker's
\* lock is free goes on to transcription.
C22_TranscriptionFailure ==
    [][\A t \in ProcIds :
          /\ FailsNow(t) =>
                 /\ proc'[t].pc = "done"
                 /\ proc'[t].calls = 0
                 /\ processing'[proc[t].member] = 0
          /\ proc[t].pc \in {"done", "dropped", "raised"} => proc'[t] = proc[t]
          /\ (proc[t].pc = "scheduled" /\ proc'[t].pc # "scheduled"
                  /\ processing[proc[t].member] = 0) =>
                 /\ proc'[t].pc = "transcribing"
                 /\ processing'[proc[t].member] = t]_vars

\* C22 witness: the latest transcription raised, its task is over, and a
\* later chunk of the same speaker found the lock free and is in
\* transcription.
C22_Witness ==
    /\ lastHeard.failed
    /\ proc[lastHeard.task].pc = "done"
    /\ \E u \in ProcIds :
           /\ u > lastHeard.task
           /\ proc[u].member = proc[lastHeard.task].member
           /\ proc[u].pc = "transcribing" /\ proc[u].met = 0

\* C23 as claimed: no exception leaves a _process task.
C23_NoExceptionLeavesTask ==
    \A t \in ProcIds : proc[t].pc # "raised"


\* C24 as claimed: the command handed to the callback is the trimmed text
\* after the first wake phrase of the transcript as it was returned, and a
\* transcript without the wake phrase, or with only whitespace after it,
\* dispatches nothing.
C24_CommandIsTextAfterWake ==
    (lastHeard.task # 0 /\ ~lastHeard.failed) =>
        LET t == lastHeard.task
        IN  /\ proc[t].pc = "callback" =>
                   proc[t].command = Strip(AfterWake(lastHeard.text))
            /\ (WakePlaces(lastHeard.text) = {}
                    \/ Strip(AfterWake(lastHeard.text)) = <<>>) => proc[t].calls = 0


\* C25 as claimed: an inbound frame that schedules no recognition (dropped,
\* or accumulated or flushed without passing the speech gate) leaves the
\* guild's last-activity timestamp as it was.
C25_OnlySpeechMarksActivity ==
    [][(lastFeed' # lastFeed /\ lastFeed'.tasks = 0) =>
           UNCHANGED <<lastActivity, marked>>]_vars


\* no play_tts call and no frame handler is in progress
Quiet == \A t \in TtsIds : tts[t].pc \in {"idle", "done"}

\* C26 as claimed: whenever a guild has a connected voice client and no call
\* of the manager is in progress, a watchdog task of that guild is alive.
C26_IdleConnectionWatched ==
    \A g \in Guilds : (vc[g].state = "connected" /\ Quiet) => WdLive(g) # {}


\* ensure_voice_client of call t returns in this step, having been called
\* while another call was awaiting the connect to the same channel
JoinsConnect(t) ==
    /\ tts[t].pc = "idle"
    /\ lastEnsure'.call = t
    /\ LET g == MemberGuild(lastEnsure'.member)
       IN  /\ vc[g].state = "connecting"
           /\ vc[g].channel = MemberChannel(lastEnsure'.member)
           /\ \E u \in TtsIds : tts[u].pc = "connecting" /\ tts[u].ref = vc[g].gen

\* C27 as claimed: an ensure_voice_client call made while another call is
\* connecting the guild to the same channel attempts no connect of its own
\* and returns the connection, not None.
C27_ConcurrentEnsureShareConnection ==
    [][\A t \in TtsIds :
          JoinsConnect(t) =>
              /\ \A k \in 1 .. Len(lastEnsure'.ops) : lastEnsure'.ops[k] # "connect"
              /\ lastEnsure'.ref # 0]_vars


\* in this step call t starts its clip on the client of guild g
StartsClip(t, g) ==
    /\ Len(playLog'[g]) = Len(playLog[g]) + 1
    /\ playLog'[g][Len(playLog'[g])] = t

\* C28 as claimed: when a call starts its clip, the guild's voice client is
\* in the channel of the member the call was made for.
C28_ClipInRequestersChannel ==
    [][\A t \in TtsIds, g \in Guilds :
          StartsClip(t, g) => vc[g].channel = MemberChannel(tts[t].member)]_vars


\* ------------------------- the hotword callback speaking: ORACog._handle_hotword
\* the play_tts call that the callback awaited by task p is waiting for
Awaited(p) ==
    {t \in TtsIds : tts[t].pc \notin {"idle", "done"} /\ tts[t].member = proc[p].member}

\* what the callback has read aloud
Announcement == <<"h", "i">>

\* _handle_hotword, through _announce_search_progress and _maybe_speak, awaits
\* play_tts(member, text) for the speaker; its calls come one after another
HotwordSpeaks(p, t) ==
    /\ proc[p].pc = "callback"
    /\ Awaited(p) = {}
    /\ PlayTts(t, proc[p].member, Announcement)

\* _handle_hotword returns or raises, no play_tts call of its own pending
HotwordReturns(p, raised) ==
    /\ Awaited(p) = {}
    /\ CallbackDone(p, raised)

\* a transcript with a command
Heard == Key \o <<Space, "x">>

\* two chunks that pass the gate, one of each speaker or both of one, and two
\* announcements
LiveTasks == {1, 2}

LiveCalls == {1, 2}

NextLive ==
    \/ \E m \in Speakers :
           /\ FreeProc \cap LiveTasks # {}
           /\ Feed(m, [amp |-> Loud, len |-> 2 * SecondBytes])
    \/ SetCallback("handle_hotword")
    \/ \E p \in LiveTasks : Start(p)
    \/ \E p \in LiveTasks : TranscribeFails(p)
    \/ \E p \in LiveTasks : Transcribed(p, Heard)
    \/ \E p \in LiveTasks, t \in LiveCalls : HotwordSpeaks(p, t)
    \/ \E p \in LiveTasks, raised \in BOOLEAN : HotwordReturns(p, raised)
    \/ \E t \in LiveCalls : ConnectDone(t)
    \/ \E t \in LiveCalls : MoveDone(t)
    \/ \E t \in LiveCalls : SynthDone(t, PlayOutcomes, PlayRemoves)
    \/ \E t \in LiveCalls : LockGranted(t, PlayOutcomes, PlayRemoves)
    \/ \E t \in LiveCalls, rmOk \in PlayRemoves : PollWake(t, rmOk)
    \/ \E g \in Guilds : ClipEnds(g)
    \/ \E g \in Guilds : Dropped(g)

\* the event loop runs every task that is ready, and transcription,
\* connecting, synthesis and playback come to an end
FairLive ==
    /\ \A p \in LiveTasks : WF_vars(Start(p))
    /\ \A p \in LiveTasks : WF_vars(TranscribeFails(p) \/ Transcribed(p, Heard))
    /\ \A p \in LiveTasks : WF_vars(\E raised \in BOOLEAN : HotwordReturns(p, raised))
    /\ \A t \in LiveCalls : WF_vars(ConnectDone(t))
    /\ \A t \in LiveCalls : WF_vars(MoveDone(t))
    /\ \A t \in LiveCalls : WF_vars(SynthDone(t, PlayOutcomes, PlayRemoves))
    /\ \A t \in LiveCalls : WF_vars(LockGranted(t, PlayOutcomes, PlayRemoves))
    /\ \A t \in LiveCalls : WF_vars(\E rmOk \in PlayRemoves : PollWake(t, rmOk))
    /\ \A g \in Guilds : WF_vars(ClipEnds(g))

SpecLive == Init /\ [][NextLive]_vars /\ FairLive

\* call t has been inside the lock section of _play_audio
Acquired(t) == fileLog[t] # "none"

\* C29: the holder of a playback lock is asleep in its poll loop: it waits
\* in no queue of a playback lock and holds no second one; a _process task
\* never queues for its speaker's lock (starting, it takes the lock or is
\* dropped in one step).  With transcription, synthesis and playback coming
\* to an end, every call that waits for a playback lock gets it, and every
\* _process task inside its speaker's lock, its callback awaiting play_tts,
\* comes to its end.
C29_NoDeadlock ==
    /\ [][\A p \in ProcIds :
             (proc[p].pc = "scheduled" /\ proc'[p].pc # "scheduled") =>
                 proc'[p].pc \in {"dropped", "transcribing"}]_vars
    /\ [](\A g \in Guilds :
             playHolder[g] # 0 =>
                 /\ tts[playHolder[g]].pc = "sleeping"
                 /\ \A h \in Guilds :
                        /\ \A k \in 1 .. Len(playWaiters[h]) :
                               playWaiters[h][k] # playHolder[g]
                        /\ h # g => playHolder[h] # playHolder[g])
    /\ \A t \in TtsIds : (tts[t].pc = "waitlock") ~> Acquired(t)
    /\ \A p \in ProcIds :
           (proc[p].pc \in {"transcribing", "callback"})
               ~> (proc[p].pc \in {"done", "raised"})

\* C29 witness: two tasks are inside their speakers' locks, each in its
\* callback; the call of one holds the guild's playback lock and the call of
\* the other waits for it.
C29_Witness ==
    \E p, q \in ProcIds, t, u \in TtsIds :
        /\ p # q
        /\ proc[p].pc = "callback" /\ processing[proc[p].member] = p
        /\ proc[q].pc = "callback" /\ processing[proc[q].member] = q
        /\ Awaited(p) = {t} /\ Awaited(q) = {u}
        /\ playHolder[TtsGuild(t)] = t
        /\ tts[u].pc = "waitlock" /\ TtsGuild(u) = TtsGuild(t)


\* C30: a task in transcription or in its callback holds its speaker's lock;
\* the lock is let go in the step in which the task ends, not before; and a
\* task of the speaker that starts meanwhile, during the callback as during
\* the transcription, is dropped and leaves the lock alone.
C30_LockHeldThroughCallback ==
    /\ [](\A m \in Members : \A t \in InFlight(m) : processing[m] = t)
    /\ [][\A m \in Members : \A t \in InFlight(m) :
             /\ processing'[m] # t => proc'[t].pc \in {"done", "raised"}
             /\ \A u \in ProcIds :
                    (proc[u].member = m /\ proc[u].pc = "scheduled"
                         /\ proc'[u].pc # "scheduled") =>
                        /\ proc'[u].pc = "dropped"
                        /\ proc'[u].met = t
                        /\ proc'[t] = proc[t] /\ processing'[m] = t]_vars

\* C30 witness: a chunk of a speaker was dropped by a task that had finished
\* its transcription and was in its callback, and that task is there still.
C30_Witness ==
    \E t, u \in ProcIds :
        /\ proc[u].pc = "dropped" /\ proc[u].met = t /\ proc[u].metIn = "callback"
        /\ proc[t].pc = "callback" /\ proc[t].heard
        /\ processing[proc[t].member] = t


====
